---- MODULE Spec2Model ----
(***************************************************************************)
(* Workload/pod coverage and mitigation of libcloudforensics' Kubernetes   *)
(* provider: workloads.py (K8sWorkload, K8sDeployment, K8sReplicaSet) and  *)
(* mitigation.py (DrainWorkloadNodesFromOtherPods,                         *)
(* CreateDenyAllNetworkPolicyForWorkload).                                 *)
(*                                                                         *)
(* The cluster (pods, nodes, the deployment, replica sets, network         *)
(* policies) is the remote state; under Spec one behaviour is one          *)
(* operation called by the investigator (OrphanPods possibly called        *)
(* again), under SpecRace other clients change the cluster while a drain   *)
(* of the deployment runs, between any two of its remote calls.  base.py   *)
(* (K8sPod, K8sNode), selector.py and the API server are modelled from the *)
(* design specification.                                                   *)
(***************************************************************************)
EXTENDS Naturals, Sequences, FiniteSets, TLC

\* ------------------------------------------------------------------ bounds
MaxPods == 3
MaxNodes == 2
MaxReplicaSets == 2
MaxCalls == 2
MaxMutations == 2
MaxRacePods == 2

Pods == 1..MaxPods
Nodes == 1..MaxNodes
ReplicaSets == 1..MaxReplicaSets

\* ------------------------------------------------------- label universe
WorkloadNamespace == "namespace"
NamespaceSeq == <<"namespace", "production">>
Namespaces == {NamespaceSeq[i] : i \in 1..Len(NamespaceSeq)}

\* Label keys in their serialisation order, and label values.
KeySeq == <<"app", "tier">>
Keys == {KeySeq[i] : i \in 1..Len(KeySeq)}
Values == {"nginx", "other"}
\* Dict[str, str]: every mapping from a subset of the keys to values.
LabelMaps == UNION {[D -> Values] : D \in SUBSET Keys}

VARIABLES
  deployment,     \* the deployment object: [exists, selector]
  replicaSets,    \* replica-set name -> [exists, namespace, labels, selector]
  pods,           \* pod name -> [namespace, labels, node]
  livePods,       \* names of the pods that exist
  unschedulable,  \* nodes marked unschedulable
  workload,       \* the handle operated on: [kind, name, namespace]
  pc,             \* position of the running operation
  op,             \* the operation called, and its argument
  arg,
  result,         \* what the operation returned or raised: [err, val]
  cordon,         \* DrainWorkloadNodesFromOtherPods: the cordon argument
  toCordon,       \* nodes still to visit in the first loop (node -> times)
  toDrain,        \* nodes still to visit in the second loop (node -> times)
  curNode,        \* the node being drained, 0 when none
  todoPods,       \* pods listed on curNode and not examined yet
  cordonCalls,    \* node -> number of Cordon calls issued
  drainCalls,     \* node -> number of Drain calls issued
  evictCalls,     \* pod -> number of eviction calls issued
  failures,       \* pods whose eviction failed
  deleteCalls,    \* the delete calls issued, in order
  specs,          \* the rest of each workload object's spec (replicas, template)
  patchCalls,     \* the patch calls issued, in order
  networkPolicies,\* the network policies that exist
  createCalls,    \* the network-policy create calls issued, in order
  calls,          \* number of calls of the operation made so far
  atCall,         \* what existed when each call began, in order
  coveredPods,    \* DrainWorkloadNodesFromOtherPods: the GetCoveredPods result
  relabelled,     \* pods whose labels another client changed during the run
  replaced,       \* replica sets another client created or removed in the run
  step,           \* the remote call the drain makes next, "" between calls
  curPod,         \* the pod the drain's filter is examining, 0 when none
  labelsRead,     \* IsCoveringPod: pod_labels, as read
  selectorRead,   \* _ReplicaSet: the deployment's match labels, as read
  podMatchLabels, \* GetCoveredPods: the pod-match-labels, as resolved
  replicaSet,     \* the replica-set handle whose match labels are read next
  nodeTodo,       \* covered pods whose node handle is still to be got
  handles,        \* node handles got so far (node -> number of handles)
  handlesByName   \* the build: K8sNode handles of one node are equal

vars == <<deployment, replicaSets, pods, livePods, unschedulable, workload,
          pc, op, arg, result, cordon, toCordon, toDrain, curNode, todoPods,
          cordonCalls, drainCalls, evictCalls, failures, deleteCalls,
          specs, patchCalls, networkPolicies, createCalls, calls,
          atCall, coveredPods, relabelled, replaced, step, curPod, labelsRead,
          selectorRead, podMatchLabels, replicaSet, nodeTodo, handles,
          handlesByName>>

clusterVars == <<deployment, replicaSets, pods, livePods, unschedulable>>
loopVars == <<cordon, toCordon, toDrain, curNode, todoPods,
              cordonCalls, drainCalls, evictCalls, failures>>
localVars == <<step, curPod, labelsRead, selectorRead, podMatchLabels,
               replicaSet, nodeTodo, handles>>
drainVars == <<loopVars, localVars>>
patchVars == <<specs, patchCalls, networkPolicies, createCalls>>
callVars == <<calls, atCall>>
raceVars == <<relabelled, replaced>>

\* --------------------------------------------------------------- results
Ok(v) == [err |-> "ok", val |-> v]
Err(e) == [err |-> e, val |-> {}]
IsOk(r) == r.err = "ok"

\* An Optional[List]: None, or a list.
None == [present |-> FALSE, items |-> <<>>]
Some(l) == [present |-> TRUE, items |-> l]

\* ------------------------------------------------------------- selector
\* selector.K8sSelector.FromLabelsDict: the conjunction of the equality tests.
FromLabelsDict(labels) == labels

\* K8sSelector.ToKeywords: the label_selector string "k1=v1,k2=v2", as the
\* sequence of its clauses in key order.
RECURSIVE Clauses(_, _)
Clauses(sel, i) ==
  IF i > Len(KeySeq) THEN <<>>
  ELSE IF KeySeq[i] \in DOMAIN sel
       THEN <<<<KeySeq[i], sel[KeySeq[i]]>>>> \o Clauses(sel, i + 1)
       ELSE Clauses(sel, i + 1)
ToKeywords(sel) == Clauses(sel, 1)

\* The API server's label filter: every clause of the query holds of the labels.
SelectorMatches(query, labels) ==
  \A i \in 1..Len(query) :
    /\ query[i][1] \in DOMAIN labels
    /\ labels[query[i][1]] = query[i][2]

\* ----------------------------------------------------------- API server
\* CoreV1Api.list_namespaced_pod(namespace, label_selector=query)
ListNamespacedPod(namespace, query) ==
  {p \in livePods : /\ pods[p].namespace = namespace
                    /\ SelectorMatches(query, pods[p].labels)}

\* CoreV1Api.list_pod_for_all_namespaces(label_selector=query)
ListPodForAllNamespaces(query) ==
  {p \in livePods : SelectorMatches(query, pods[p].labels)}

\* AppsV1Api.list_namespaced_replica_set(namespace, label_selector=query)
ListNamespacedReplicaSet(namespace, query) ==
  {r \in ReplicaSets : /\ replicaSets[r].exists
                       /\ replicaSets[r].namespace = namespace
                       /\ SelectorMatches(query, replicaSets[r].labels)}

\* ------------------------------------------------------------- handles
DeploymentName == "deployment"
K8sDeployment(name, namespace) ==
  [kind |-> "Deployment", name |-> name, namespace |-> namespace]
K8sReplicaSet(name, namespace) ==
  [kind |-> "ReplicaSet", name |-> name, namespace |-> namespace]

\* K8sDeployment.Read: read_namespaced_deployment(name, namespace)
ReadDeployment(w) ==
  IF /\ deployment.exists
     /\ w.name = DeploymentName
     /\ w.namespace = WorkloadNamespace
  THEN Ok(deployment) ELSE Err("NotFound")

\* K8sReplicaSet.Read: read_namespaced_replica_set(name, namespace)
ReadReplicaSet(w) ==
  IF /\ w.name \in ReplicaSets
     /\ replicaSets[w.name].exists
     /\ replicaSets[w.name].namespace = w.namespace
  THEN Ok(replicaSets[w.name]) ELSE Err("NotFound")

Read(w) == IF w.kind = "Deployment" THEN ReadDeployment(w) ELSE ReadReplicaSet(w)

\* K8sWorkload.MatchLabels with the matchExpressions check left out.
MatchLabelsIgnoringExpressions(w) ==
  LET read == Read(w) IN
  IF ~IsOk(read) THEN read ELSE Ok(read.val.selector.match_labels)

\* K8sWorkload.MatchLabels
MatchLabels(w) ==
  LET read == Read(w) IN
  IF ~IsOk(read) THEN read
  ELSE IF read.val.selector.match_expressions.present
       THEN Err("NotImplementedError")
       ELSE Ok(read.val.selector.match_labels)

\* K8sDeployment._ReplicaSet taking the first result whenever there is one.
ReplicaSetOfFirst(w) ==
  LET ml == MatchLabels(w) IN
  IF ~IsOk(ml) THEN ml
  ELSE LET items == ListNamespacedReplicaSet(
                      w.namespace, ToKeywords(FromLabelsDict(ml.val)))
       IN IF items = {} THEN Err("NotImplementedError")
          ELSE LET r == CHOOSE x \in items : TRUE
               IN Ok(K8sReplicaSet(r, replicaSets[r].namespace))

\* K8sDeployment._ReplicaSet after self.MatchLabels(), taking the first
\* listed replica set whenever there is one.
ReplicaSetMatchingAny(w, labels) ==
  LET items == ListNamespacedReplicaSet(
                 w.namespace, ToKeywords(FromLabelsDict(labels)))
  IN IF items = {} THEN Err("NotImplementedError")
     ELSE LET r == CHOOSE x \in items : TRUE
          IN Ok(K8sReplicaSet(r, replicaSets[r].namespace))

\* K8sDeployment._ReplicaSet after self.MatchLabels(): the replica sets the
\* labels select are listed, and the only one is returned as a handle.
ReplicaSetMatching(w, labels) ==
  LET items == ListNamespacedReplicaSet(
                 w.namespace, ToKeywords(FromLabelsDict(labels)))
  IN IF Cardinality(items) # 1 THEN Err("NotImplementedError")
     ELSE LET r == CHOOSE x \in items : TRUE
          IN Ok(K8sReplicaSet(r, replicaSets[r].namespace))

\* K8sDeployment._ReplicaSet
ReplicaSetOf(w) ==
  LET ml == MatchLabels(w) IN
  IF ~IsOk(ml) THEN ml ELSE ReplicaSetMatching(w, ml.val)

\* K8sDeployment._PodMatchLabels and K8sReplicaSet._PodMatchLabels
PodMatchLabels(w) ==
  IF w.kind = "Deployment"
  THEN LET rs == ReplicaSetOf(w) IN
       IF ~IsOk(rs) THEN rs ELSE MatchLabels(rs.val)
  ELSE MatchLabels(w)

\* K8sWorkload.GetCoveredPods listing the pods of every namespace.
GetCoveredPodsAllNamespaces(w) ==
  LET pm == PodMatchLabels(w) IN
  IF ~IsOk(pm) THEN pm
  ELSE Ok(ListPodForAllNamespaces(ToKeywords(FromLabelsDict(pm.val))))

\* K8sWorkload.GetCoveredPods
GetCoveredPods(w) ==
  LET pm == PodMatchLabels(w) IN
  IF ~IsOk(pm) THEN pm
  ELSE Ok(ListNamespacedPod(w.namespace, ToKeywords(FromLabelsDict(pm.val))))

\* K8sPod.GetLabels: the pod's current labels, read on demand.
GetLabels(p) == IF p \in livePods THEN Ok(pods[p].labels) ELSE Err("NotFound")

\* K8sPod.GetNode: the handle of the node the pod is bound to.
GetNode(p) == pods[p].node

\* The loop of IsCoveringPod with the value comparison left out.
RECURSIVE CoversKeysOnly(_, _, _)
CoversKeysOnly(items, matchLabels, podLabels) ==
  IF items = {} THEN TRUE
  ELSE LET k == CHOOSE x \in items : TRUE IN
       IF k \notin DOMAIN podLabels THEN FALSE
       ELSE CoversKeysOnly(items \ {k}, matchLabels, podLabels)

\* The loop of IsCoveringPod over the items of the match labels.
RECURSIVE CoversItems(_, _, _)
CoversItems(items, matchLabels, podLabels) ==
  IF items = {} THEN TRUE
  ELSE LET k == CHOOSE x \in items : TRUE IN
       IF k \notin DOMAIN podLabels THEN FALSE
       ELSE IF podLabels[k] # matchLabels[k] THEN FALSE
       ELSE CoversItems(items \ {k}, matchLabels, podLabels)

\* K8sWorkload.IsCoveringPod
IsCoveringPod(w, p) ==
  LET pod_labels == GetLabels(p) IN
  IF ~IsOk(pod_labels) THEN pod_labels
  ELSE LET pm == PodMatchLabels(w) IN
       IF ~IsOk(pm) THEN pm
       ELSE Ok(CoversItems(DOMAIN pm.val, pm.val, pod_labels.val))

\* ------------------------------------------------------------ mitigation
NoNodes == [n \in Nodes |-> 0]

\* The generator of DrainWorkloadNodesFromOtherPods kept as a list: every node
\* handle got, a node as many times as it hosts covered pods.
DrainNodeList(got, byName) == got

\* nodes = set(pod.GetNode() for pod in workload.GetCoveredPods()): the set of
\* the node handles got, one per covered pod, as the number of times the loops
\* will visit each node.  Every GetNode call returns a new handle object, and
\* set() keeps one of the handles that are equal.  Where a node handle is a
\* value, the node's name, the handles of one node are equal and the set
\* holds each node once; where K8sNode defines no equality Python compares
\* the objects by identity, no two handles are equal and the set holds them
\* all.  The sources do not say which K8sNode is built.
DrainNodeSet(got, byName) ==
  IF byName THEN [n \in Nodes |-> IF got[n] > 0 THEN 1 ELSE 0] ELSE got

\* The first loop of the drain, never run.
CordonLoopSkipped(c, nodes) == NoNodes

\* if cordon: for node in nodes: node.Cordon()  -- the visits of the first loop.
CordonLoop(c, nodes) == IF c THEN nodes ELSE NoNodes

\* A drain filter that holds of every pod: a full node drain.
DrainFilterEveryPod(covering) == Ok(TRUE)

\* The drain's pod filter without its negation.
DrainFilterNotNegated(covering) == covering

\* lambda p: not workload.IsCoveringPod(p), from what IsCoveringPod gave.
DrainFilter(covering) ==
  IF ~IsOk(covering) THEN covering ELSE Ok(~covering.val)

\* DrainWorkloadNodesFromOtherPods returns None: what K8sNode.Drain collected
\* is dropped, so no failed pod is reported to the caller.
DrainReturn(failed) == {}

\* K8sNode.Drain lists the pods bound to the node, in every namespace.
PodsOnNode(n) == {p \in livePods : pods[p].node = n}

\* The loop the drain is in, from the visits left.
DrainPc(tc, td, cur) ==
  IF \E n \in Nodes : tc[n] > 0 THEN "cordon"
  ELSE IF cur # 0 \/ \E n \in Nodes : td[n] > 0 THEN "drain"
  ELSE "returned"

\* ------------------------------------------------------ template labels
\* The workload object as the API server holds it: the selector, and the rest
\* of its spec.
StoredSpec(w) ==
  IF w.kind = "Deployment" THEN specs.deployment ELSE specs.replicaSets[w.name]
Manifest(w) ==
  [metadata |-> [name |-> w.name, namespace |-> w.namespace],
   spec |-> [selector |-> Read(w).val.selector,
             replicas |-> StoredSpec(w).replicas,
             template |-> StoredSpec(w).template]]

\* A patch of a labels mapping: the keys named are set, the others are kept.
MergeLabels(old, new) ==
  [k \in DOMAIN old \cup DOMAIN new |-> IF k \in DOMAIN new THEN new[k] ELSE old[k]]

\* The API server's partial update of a workload object: every field the body
\* names is merged into the object, every other field is kept.
PatchSelector(selector, body) ==
  IF "match_labels" \in DOMAIN body
  THEN [selector EXCEPT !.match_labels = MergeLabels(@, body.match_labels)]
  ELSE selector
PatchTemplate(template, body) ==
  IF "metadata" \in DOMAIN body
  THEN IF "labels" \in DOMAIN body.metadata
       THEN [template EXCEPT
               !.metadata.labels = MergeLabels(@, body.metadata.labels)]
       ELSE template
  ELSE template
PatchSpec(spec, body) ==
  [selector |-> IF "selector" \in DOMAIN body
                THEN PatchSelector(spec.selector, body.selector)
                ELSE spec.selector,
   replicas |-> IF "replicas" \in DOMAIN body THEN body.replicas
                ELSE spec.replicas,
   template |-> IF "template" \in DOMAIN body
                THEN PatchTemplate(spec.template, body.template)
                ELSE spec.template]
PatchObject(object, body) ==
  IF "spec" \in DOMAIN body
  THEN [object EXCEPT !.spec = PatchSpec(@, body.spec)]
  ELSE object

\* AddTemplateLabels with a body that sets the selector's labels as well.
TemplateAndSelectorLabelsBody(labels) ==
  [spec |-> [selector |-> [match_labels |-> labels],
             template |-> [metadata |-> [labels |-> labels]]]]

\* K8sDeployment.AddTemplateLabels and K8sReplicaSet.AddTemplateLabels: the
\* body of the patch.
TemplateLabelsBody(labels) ==
  [spec |-> [template |-> [metadata |-> [labels |-> labels]]]]

PatchCall(w, body) ==
  [kind |-> w.kind, name |-> w.name, namespace |-> w.namespace, body |-> body]

\* patch_namespaced_deployment / patch_namespaced_replica_set: one patch call,
\* which raises NotFound when the object does not exist.
AddTemplateLabels(w, labels) ==
  /\ patchCalls' = Append(patchCalls, PatchCall(w, TemplateLabelsBody(labels)))
  /\ IF ~IsOk(Read(w))
     THEN UNCHANGED <<deployment, replicaSets, specs>>
     ELSE LET patched == PatchObject(Manifest(w), TemplateLabelsBody(labels))
              stored == [replicas |-> patched.spec.replicas,
                         template |-> patched.spec.template]
          IN IF w.kind = "Deployment"
             THEN /\ deployment' =
                       [deployment EXCEPT !.selector = patched.spec.selector]
                  /\ specs' = [specs EXCEPT !.deployment = stored]
                  /\ UNCHANGED replicaSets
             ELSE /\ replicaSets' =
                       [replicaSets EXCEPT
                          ![w.name].selector = patched.spec.selector]
                  /\ specs' = [specs EXCEPT !.replicaSets[w.name] = stored]
                  /\ UNCHANGED deployment
PatchResult(w) == IF IsOk(Read(w)) THEN Ok({}) ELSE Err("NotFound")

\* ------------------------------------------------------------------ Init
AbsentSelector == [match_labels |-> <<>>, match_expressions |-> None]
AbsentReplicaSet ==
  [exists |-> FALSE, namespace |-> WorkloadNamespace, labels |-> <<>>,
   selector |-> AbsentSelector]
AbsentDeployment == [exists |-> FALSE, selector |-> AbsentSelector]
AbsentPod == [namespace |-> WorkloadNamespace, labels |-> <<>>, node |-> 1]

\* A matchExpressions list as the API server returns it: absent (None), or a
\* non-empty list of rules (an empty list is omitted from the response).
SomeExpressions == Some(<<[key |-> "tier", operator |-> "Exists"]>>)
MatchExpressions == {None, SomeExpressions}

AppNginx == [app |-> "nginx"]
AppOther == [app |-> "other"]
AppNginxTier == [app |-> "nginx", tier |-> "other"]

\* The spec of a workload object whose pod template carries the given labels.
WorkloadSpec(labels) ==
  [replicas |-> 1,
   template |-> [metadata |-> [labels |-> labels],
                 spec |-> [containers |-> <<"nginx">>]]]

\* What exists in the cluster, and what a call finds when it begins.
ObjectsNow ==
  [deployment |-> deployment.exists,
   replicaSets |-> {r \in ReplicaSets : replicaSets[r].exists},
   pods |-> livePods]
CallStart == [exists |-> IsOk(Read(workload)), objects |-> ObjectsNow]

NoHandle == [kind |-> "none", name |-> 0, namespace |-> ""]

\* The rest of the state, which the fixtures determine: a replica set's pod
\* template carries the replica set's own labels, the deployment's template
\* the labels of its pods.
InitObjects ==
  /\ specs = [deployment |-> WorkloadSpec(IF deployment.exists THEN AppNginxTier
                                          ELSE <<>>),
              replicaSets |-> [r \in ReplicaSets |->
                                 WorkloadSpec(replicaSets[r].labels)]]
  /\ patchCalls = <<>>
  /\ networkPolicies = {}
  /\ createCalls = <<>>
  /\ calls = 0
  /\ atCall = <<>>
  /\ coveredPods = {}
  /\ relabelled = {}
  /\ replaced = {}
  /\ step = ""
  /\ curPod = 0
  /\ labelsRead = <<>>
  /\ selectorRead = <<>>
  /\ podMatchLabels = <<>>
  /\ replicaSet = NoHandle
  /\ nodeTodo = {}
  /\ handles = NoNodes

IdleOperation ==
  /\ pc = "idle"
  /\ op = "none"
  /\ arg = 0
  /\ result = Ok({})
  /\ cordon = FALSE
  /\ toCordon = NoNodes
  /\ toDrain = NoNodes
  /\ curNode = 0
  /\ todoPods = {}
  /\ cordonCalls = NoNodes
  /\ drainCalls = NoNodes
  /\ evictCalls = [p \in Pods |-> 0]
  /\ failures = {}
  /\ deleteCalls = <<>>
  /\ unschedulable = {}
  /\ handlesByName \in BOOLEAN

\* Coverage fixtures: a replica set with any match labels, one pod with any
\* labels in any namespace.
InitCoverage ==
  \E W \in LabelMaps, P \in LabelMaps, ns \in Namespaces :
    /\ workload = K8sReplicaSet(1, WorkloadNamespace)
    /\ deployment = AbsentDeployment
    /\ replicaSets =
         [r \in ReplicaSets |->
            IF r = 1
            THEN [exists |-> TRUE, namespace |-> WorkloadNamespace, labels |-> W,
                  selector |-> [match_labels |-> W, match_expressions |-> None]]
            ELSE AbsentReplicaSet]
    /\ pods = [p \in Pods |->
                 IF p = 1 THEN [namespace |-> ns, labels |-> P, node |-> 1]
                 ELSE AbsentPod]
    /\ livePods = {1}

\* Drain fixtures: a deployment and its replica set selecting app=nginx; every
\* pod of P in either namespace, with matching or other labels, on any node.
\* Pods are interchangeable, so their configurations are taken in ascending
\* order.
DrainPodLabels == <<AppNginxTier, AppOther>>
PodConfigs == (1..Len(NamespaceSeq)) \X (1..Len(DrainPodLabels)) \X Nodes
ConfigRank(c) == (c[1] * Len(DrainPodLabels) + c[2]) * MaxNodes + c[3]

DrainFixture(P) ==
  \E cfg \in [P -> PodConfigs], kind \in {"Deployment", "ReplicaSet"} :
    /\ \A p \in P : p + 1 \in P => ConfigRank(cfg[p]) <= ConfigRank(cfg[p + 1])
    /\ workload = IF kind = "Deployment"
                  THEN K8sDeployment(DeploymentName, WorkloadNamespace)
                  ELSE K8sReplicaSet(1, WorkloadNamespace)
    /\ deployment =
         [exists |-> TRUE,
          selector |-> [match_labels |-> AppNginx, match_expressions |-> None]]
    /\ replicaSets =
         [r \in ReplicaSets |->
            IF r = 1
            THEN [exists |-> TRUE, namespace |-> WorkloadNamespace,
                  labels |-> AppNginxTier,
                  selector |-> [match_labels |-> AppNginx,
                                match_expressions |-> None]]
            ELSE AbsentReplicaSet]
    /\ pods = [p \in Pods |->
                 IF p \in P
                 THEN [namespace |-> NamespaceSeq[cfg[p][1]],
                       labels |-> DrainPodLabels[cfg[p][2]],
                       node |-> cfg[p][3]]
                 ELSE AbsentPod]
    /\ livePods = P

InitDrain == DrainFixture(Pods)

\* Resolution fixtures: a deployment selecting app=nginx, with or without
\* expression rules, or by expression rules alone; every replica set absent, or present in either namespace
\* with labels the deployment's selector matches or not, with or without
\* expression rules; two pods on one node.
ReplicaSetConfigs ==
  {AbsentReplicaSet} \cup
  {[exists |-> TRUE, namespace |-> ns, labels |-> l,
    selector |-> [match_labels |-> AppNginxTier, match_expressions |-> e]] :
     ns \in Namespaces, l \in {AppNginxTier, AppOther}, e \in MatchExpressions}

DeploymentSelectors ==
  {[match_labels |-> AppNginx, match_expressions |-> e] : e \in MatchExpressions}
  \cup {[match_labels |-> <<>>, match_expressions |-> SomeExpressions]}

InitResolve ==
  \E rs \in [ReplicaSets -> ReplicaSetConfigs], sel \in DeploymentSelectors,
     kind \in {"Deployment", "ReplicaSet"} :
    /\ workload = IF kind = "Deployment"
                  THEN K8sDeployment(DeploymentName, WorkloadNamespace)
                  ELSE K8sReplicaSet(1, WorkloadNamespace)
    /\ deployment = [exists |-> TRUE, selector |-> sel]
    /\ replicaSets = rs
    /\ pods = [p \in Pods |->
                 IF p = 1
                 THEN [namespace |-> WorkloadNamespace, labels |-> AppNginxTier,
                       node |-> 1]
                 ELSE IF p = 2
                 THEN [namespace |-> WorkloadNamespace, labels |-> AppOther,
                       node |-> 1]
                 ELSE AbsentPod]
    /\ livePods = {p \in Pods : p <= 2}

Init == IdleOperation /\ (InitCoverage \/ InitDrain \/ InitResolve) /\ InitObjects

\* --------------------------------------------------------------- actions
Return(name, a, r) ==
  /\ op' = name
  /\ arg' = a
  /\ result' = r
  /\ pc' = IF IsOk(r) THEN "returned" ELSE "raised"

\* workload.MatchLabels()
CallMatchLabels ==
  /\ pc = "idle"
  /\ Return("MatchLabels", 0, MatchLabels(workload))
  /\ UNCHANGED <<clusterVars, workload, drainVars, deleteCalls>>
  /\ UNCHANGED <<patchVars, callVars, coveredPods, raceVars,
                 handlesByName>>

\* workload._PodMatchLabels()
CallPodMatchLabels ==
  /\ pc = "idle"
  /\ Return("PodMatchLabels", 0, PodMatchLabels(workload))
  /\ UNCHANGED <<clusterVars, workload, drainVars, deleteCalls>>
  /\ UNCHANGED <<patchVars, callVars, coveredPods, raceVars,
                 handlesByName>>

\* workload.GetCoveredPods()
CallGetCoveredPods ==
  /\ pc = "idle"
  /\ Return("GetCoveredPods", 0, GetCoveredPods(workload))
  /\ UNCHANGED <<clusterVars, workload, drainVars, deleteCalls>>
  /\ UNCHANGED <<patchVars, callVars, coveredPods, raceVars,
                 handlesByName>>

\* workload.IsCoveringPod(pod), for a handle of any pod of the cluster
CallIsCoveringPod(p) ==
  /\ pc = "idle"
  /\ p \in livePods
  /\ Return("IsCoveringPod", p, IsCoveringPod(workload, p))
  /\ UNCHANGED <<clusterVars, workload, drainVars, deleteCalls>>
  /\ UNCHANGED <<patchVars, callVars, coveredPods, raceVars,
                 handlesByName>>

\* workload.AddTemplateLabels(labels)
CallAddTemplateLabels(labels) ==
  /\ pc = "idle"
  /\ AddTemplateLabels(workload, labels)
  /\ Return("AddTemplateLabels", labels, PatchResult(workload))
  /\ UNCHANGED <<pods, livePods, unschedulable, workload, drainVars, deleteCalls>>
  /\ UNCHANGED <<networkPolicies, createCalls, callVars, coveredPods, raceVars,
                 handlesByName>>

\* CreateDenyAllNetworkPolicyForWorkload(k8s_cluster, workload): its first
\* statement calls k8s_cluster.DenyAllNetworkPolicy, a method K8sCluster does
\* not have, so the call raises AttributeError before any remote call: no
\* policy is created and the workload is not patched.
CreateDenyAllNetworkPolicyForWorkload ==
  /\ pc = "idle"
  /\ Return("CreateDenyAllNetworkPolicyForWorkload", 0, Err("AttributeError"))
  /\ UNCHANGED <<clusterVars, workload, drainVars, deleteCalls>>
  /\ UNCHANGED <<patchVars, callVars, coveredPods, raceVars,
                 handlesByName>>

\* A controller's selector applied to labels: every matchLabels pair, and
\* every matchExpressions rule (all rules here are "key Exists").
Selects(selector, labels) ==
  /\ SelectorMatches(ToKeywords(selector.match_labels), labels)
  /\ \A i \in 1..Len(selector.match_expressions.items) :
       selector.match_expressions.items[i].key \in DOMAIN labels

\* The API server's delete: the object is removed; unless the propagation
\* policy is Orphan, the garbage collector removes what it manages as well.
ManagedPods(r) ==
  {p \in livePods :
     /\ pods[p].namespace = replicaSets[r].namespace
     /\ Selects(replicaSets[r].selector, pods[p].labels)}
ManagedReplicaSets ==
  {r \in ReplicaSets :
     /\ replicaSets[r].exists
     /\ replicaSets[r].namespace = WorkloadNamespace
     /\ Selects(deployment.selector, replicaSets[r].labels)}

\* The delete call with the test of cascade inverted.
DeleteCallInverted(w, cascade) ==
  [kind |-> w.kind, name |-> w.name,
   propagationPolicy |-> IF cascade THEN "Orphan" ELSE "default"]

DeleteCall(w, cascade) ==
  [kind |-> w.kind, name |-> w.name,
   propagationPolicy |-> IF cascade THEN "default" ELSE "Orphan"]

\* K8sDeployment.Delete and K8sReplicaSet.Delete: one delete call, which
\* raises NotFound when the object does not exist.
Delete(w, cascade) ==
  /\ deleteCalls' = Append(deleteCalls, DeleteCall(w, cascade))
  /\ IF ~IsOk(Read(w))
     THEN UNCHANGED <<deployment, replicaSets, livePods>>
     ELSE IF w.kind = "Deployment"
     THEN /\ deployment' = [deployment EXCEPT !.exists = FALSE]
          /\ replicaSets' =
               IF cascade
               THEN [r \in ReplicaSets |->
                       IF r \in ManagedReplicaSets
                       THEN [replicaSets[r] EXCEPT !.exists = FALSE]
                       ELSE replicaSets[r]]
               ELSE replicaSets
          /\ livePods' =
               IF cascade
               THEN livePods \ UNION {ManagedPods(r) : r \in ManagedReplicaSets}
               ELSE livePods
     ELSE /\ replicaSets' = [replicaSets EXCEPT ![w.name].exists = FALSE]
          /\ livePods' = IF cascade THEN livePods \ ManagedPods(w.name)
                         ELSE livePods
          /\ UNCHANGED deployment
DeleteResult(w) == IF IsOk(Read(w)) THEN Ok({}) ELSE Err("NotFound")

\* workload.Delete(cascade)
CallDelete(cascade) ==
  /\ pc = "idle"
  /\ Delete(workload, cascade)
  /\ Return("Delete", IF cascade THEN 1 ELSE 0, DeleteResult(workload))
  /\ UNCHANGED <<pods, unschedulable, workload, drainVars>>
  /\ UNCHANGED <<patchVars, callVars, coveredPods, raceVars,
                 handlesByName>>

\* OrphanPods is called on the idle handle, or once more after it ended.
OrphanPodsCallable ==
  \/ pc = "idle"
  \/ op = "OrphanPods" /\ pc \in {"returned", "raised"} /\ calls < MaxCalls

\* K8sReplicaSet.OrphanPods: self.Delete(cascade=False)
OrphanPodsReplicaSet ==
  /\ OrphanPodsCallable
  /\ workload.kind = "ReplicaSet"
  /\ calls' = calls + 1
  /\ atCall' = Append(atCall, CallStart)
  /\ Delete(workload, FALSE)
  /\ Return("OrphanPods", 0, DeleteResult(workload))
  /\ UNCHANGED <<pods, unschedulable, workload, drainVars>>
  /\ UNCHANGED <<patchVars, coveredPods, raceVars,
                 handlesByName>>

\* K8sDeployment.OrphanPods, first statement: self.Delete(cascade=False)
OrphanPodsDeployment ==
  /\ OrphanPodsCallable
  /\ workload.kind = "Deployment"
  /\ calls' = calls + 1
  /\ atCall' = Append(atCall, CallStart)
  /\ Delete(workload, FALSE)
  /\ op' = "OrphanPods"
  /\ arg' = 0
  /\ result' = DeleteResult(workload)
  /\ pc' = IF IsOk(DeleteResult(workload)) THEN "orphan_replica_set" ELSE "raised"
  /\ UNCHANGED <<pods, unschedulable, workload, drainVars>>
  /\ UNCHANGED <<patchVars, coveredPods, raceVars,
                 handlesByName>>

\* K8sDeployment.OrphanPods, second statement:
\* self._ReplicaSet().Delete(cascade=False)
OrphanPodsDeploymentReplicaSet ==
  /\ pc = "orphan_replica_set"
  /\ LET rs == ReplicaSetOf(workload) IN
       IF ~IsOk(rs)
       THEN /\ Return("OrphanPods", 0, rs)
            /\ UNCHANGED <<deployment, replicaSets, livePods, deleteCalls>>
       ELSE /\ Delete(rs.val, FALSE)
            /\ Return("OrphanPods", 0, DeleteResult(rs.val))
  /\ UNCHANGED <<pods, unschedulable, workload, drainVars>>
  /\ UNCHANGED <<patchVars, callVars, coveredPods, raceVars,
                 handlesByName>>

\* The drain makes its remote calls one at a time.  What it holds between two
\* calls, reset when it is not needed any more:
LocalsReset ==
  /\ step' = ""
  /\ curPod' = 0
  /\ labelsRead' = <<>>
  /\ selectorRead' = <<>>
  /\ podMatchLabels' = <<>>
  /\ replicaSet' = NoHandle
  /\ nodeTodo' = {}
  /\ handles' = NoNodes

\* An exception of a remote call, or of the code, ends the drain.
Abort(r) ==
  /\ result' = r
  /\ pc' = "raised"
  /\ LocalsReset

\* _PodMatchLabels begins with the deployment's read, or for a replica set
\* with its own.
FirstStep(w) ==
  IF w.kind = "Deployment" THEN "read_deployment" ELSE "read_replica_set"
FirstHandle(w) == IF w.kind = "Deployment" THEN NoHandle ELSE w

\* The smallest pod of a listing: listings are gone through in their order.
FirstPod(S) == CHOOSE p \in S : \A q \in S : p <= q

\* DrainWorkloadNodesFromOtherPods(workload, cordon) is called: its first
\* statement begins with workload.GetCoveredPods().
DrainStart(c) ==
  /\ pc = "idle"
  /\ op' = "Drain"
  /\ arg' = 0
  /\ cordon' = c
  /\ pc' = "nodes"
  /\ step' = FirstStep(workload)
  /\ replicaSet' = FirstHandle(workload)
  /\ UNCHANGED <<clusterVars, workload, result, toCordon, toDrain, curNode,
                 todoPods, cordonCalls, drainCalls, evictCalls, failures,
                 deleteCalls, curPod, labelsRead, selectorRead, podMatchLabels,
                 nodeTodo, handles>>
  /\ UNCHANGED <<patchVars, callVars, coveredPods, raceVars,
                 handlesByName>>

\* _ReplicaSet: self.MatchLabels(), the read of the deployment.
ResolveReadDeployment ==
  /\ pc \in {"nodes", "drain"}
  /\ step = "read_deployment"
  /\ LET ml == MatchLabels(workload) IN
       IF ~IsOk(ml) THEN Abort(ml)
       ELSE /\ selectorRead' = ml.val
            /\ step' = "list_replica_sets"
            /\ UNCHANGED <<pc, result, curPod, labelsRead, podMatchLabels,
                           replicaSet, nodeTodo, handles>>
  /\ UNCHANGED <<clusterVars, workload, op, arg, loopVars, deleteCalls>>
  /\ UNCHANGED <<patchVars, callVars, coveredPods, raceVars,
                 handlesByName>>

\* _ReplicaSet: the listing of the replica sets the match labels select.
ResolveListReplicaSets ==
  /\ pc \in {"nodes", "drain"}
  /\ step = "list_replica_sets"
  /\ LET rs == ReplicaSetMatching(workload, selectorRead) IN
       IF ~IsOk(rs) THEN Abort(rs)
       ELSE /\ replicaSet' = rs.val
            /\ step' = "read_replica_set"
            /\ UNCHANGED <<pc, result, curPod, labelsRead, selectorRead,
                           podMatchLabels, nodeTodo, handles>>
  /\ UNCHANGED <<clusterVars, workload, op, arg, loopVars, deleteCalls>>
  /\ UNCHANGED <<patchVars, callVars, coveredPods, raceVars,
                 handlesByName>>

\* GetCoveredPods: _PodMatchLabels ends with the read of the replica set.
NodesReadReplicaSet ==
  /\ pc = "nodes"
  /\ step = "read_replica_set"
  /\ LET ml == MatchLabels(replicaSet) IN
       IF ~IsOk(ml) THEN Abort(ml)
       ELSE /\ podMatchLabels' = ml.val
            /\ step' = "list_pods"
            /\ UNCHANGED <<pc, result, curPod, labelsRead, selectorRead,
                           replicaSet, nodeTodo, handles>>
  /\ UNCHANGED <<clusterVars, workload, op, arg, loopVars, deleteCalls>>
  /\ UNCHANGED <<patchVars, callVars, coveredPods, raceVars,
                 handlesByName>>

\* GetCoveredPods: the listing of the pods; without pods the node set is empty
\* and the drain returns.
NodesListPods ==
  /\ pc = "nodes"
  /\ step = "list_pods"
  /\ LET listed == ListNamespacedPod(
                     workload.namespace,
                     ToKeywords(FromLabelsDict(podMatchLabels)))
     IN /\ coveredPods' = listed
        /\ IF listed = {}
           THEN /\ pc' = "returned"
                /\ result' = Ok(DrainReturn(failures))
                /\ LocalsReset
           ELSE /\ nodeTodo' = listed
                /\ step' = "get_node"
                /\ UNCHANGED <<pc, result, curPod, labelsRead, selectorRead,
                               podMatchLabels, replicaSet, handles>>
  /\ UNCHANGED <<clusterVars, workload, op, arg, loopVars, deleteCalls>>
  /\ UNCHANGED <<patchVars, callVars, raceVars,
                 handlesByName>>

\* pod.GetNode() for the next covered pod; after the last one the set of the
\* handles is built and the loops begin.
NodesGetNode ==
  /\ pc = "nodes"
  /\ step = "get_node"
  /\ LET p == FirstPod(nodeTodo)
         got == [handles EXCEPT ![GetNode(p)] = @ + 1]
         nodes == DrainNodeSet(got, handlesByName)
     IN IF nodeTodo = {p}
        THEN /\ toCordon' = CordonLoop(cordon, nodes)
             /\ toDrain' = nodes
             /\ pc' = DrainPc(toCordon', toDrain', 0)
             /\ LocalsReset
        ELSE /\ nodeTodo' = nodeTodo \ {p}
             /\ handles' = got
             /\ UNCHANGED <<pc, toCordon, toDrain, step, curPod, labelsRead,
                            selectorRead, podMatchLabels, replicaSet>>
  /\ UNCHANGED <<clusterVars, workload, op, arg, result, cordon, curNode,
                 todoPods, cordonCalls, drainCalls, evictCalls, failures,
                 deleteCalls>>
  /\ UNCHANGED <<patchVars, callVars, coveredPods, raceVars,
                 handlesByName>>

\* node.Cordon(): the node is marked unschedulable.
CordonNode(n) ==
  /\ pc = "cordon"
  /\ toCordon[n] > 0
  /\ toCordon' = [toCordon EXCEPT ![n] = @ - 1]
  /\ cordonCalls' = [cordonCalls EXCEPT ![n] = @ + 1]
  /\ unschedulable' = unschedulable \cup {n}
  /\ pc' = DrainPc(toCordon', toDrain, 0)
  /\ UNCHANGED <<deployment, replicaSets, pods, livePods, workload, op, arg,
                 result, cordon, toDrain, curNode, todoPods, drainCalls,
                 evictCalls, failures, deleteCalls, localVars>>
  /\ UNCHANGED <<patchVars, callVars, coveredPods, raceVars,
                 handlesByName>>

\* node.Drain(filter) begins: the pods on the node are listed.
DrainNode(n) ==
  /\ pc = "drain"
  /\ curNode = 0
  /\ toDrain[n] > 0
  /\ toDrain' = [toDrain EXCEPT ![n] = @ - 1]
  /\ drainCalls' = [drainCalls EXCEPT ![n] = @ + 1]
  /\ curNode' = n
  /\ todoPods' = PodsOnNode(n)
  /\ UNCHANGED <<clusterVars, workload, pc, op, arg, result, cordon, toCordon,
                 cordonCalls, evictCalls, failures, deleteCalls, localVars>>
  /\ UNCHANGED <<patchVars, callVars, coveredPods, raceVars,
                 handlesByName>>

\* node.Drain(filter) takes the next listed pod and calls the filter, whose
\* IsCoveringPod begins with pod.GetLabels(), the read of the pod.
ExaminePod(p) ==
  /\ pc = "drain"
  /\ curNode # 0
  /\ curPod = 0
  /\ todoPods # {}
  /\ p = FirstPod(todoPods)
  /\ todoPods' = todoPods \ {p}
  /\ LET pod_labels == GetLabels(p) IN
       IF ~IsOk(pod_labels) THEN Abort(pod_labels)
       ELSE /\ curPod' = p
            /\ labelsRead' = pod_labels.val
            /\ step' = FirstStep(workload)
            /\ replicaSet' = FirstHandle(workload)
            /\ UNCHANGED <<pc, result, selectorRead, podMatchLabels, nodeTodo,
                           handles>>
  /\ UNCHANGED <<clusterVars, workload, op, arg, cordon, toCordon, toDrain,
                 curNode, cordonCalls, drainCalls, evictCalls, failures,
                 deleteCalls>>
  /\ UNCHANGED <<patchVars, callVars, coveredPods, raceVars,
                 handlesByName>>

\* IsCoveringPod: _PodMatchLabels ends with the read of the replica set; the
\* loop over its items gives the filter's answer, and the pod is left alone or
\* its eviction comes next.
FilterReadReplicaSet ==
  /\ pc = "drain"
  /\ step = "read_replica_set"
  /\ LET ml == MatchLabels(replicaSet)
         f == DrainFilter(
                IF ~IsOk(ml) THEN ml
                ELSE Ok(CoversItems(DOMAIN ml.val, ml.val, labelsRead)))
     IN IF ~IsOk(f) THEN Abort(f)
        ELSE IF f.val
        THEN /\ step' = "evict"
             /\ labelsRead' = <<>>
             /\ selectorRead' = <<>>
             /\ replicaSet' = NoHandle
             /\ UNCHANGED <<pc, result, curPod, podMatchLabels, nodeTodo,
                            handles>>
        ELSE /\ LocalsReset
             /\ UNCHANGED <<pc, result>>
  /\ UNCHANGED <<clusterVars, workload, op, arg, loopVars, deleteCalls>>
  /\ UNCHANGED <<patchVars, callVars, coveredPods, raceVars,
                 handlesByName>>

\* The eviction of the pod is requested: it succeeds (the pod is gone) or
\* fails (the failure is collected and the drain goes on).
EvictPod(evicted) ==
  /\ pc = "drain"
  /\ step = "evict"
  /\ evictCalls' = [evictCalls EXCEPT ![curPod] = @ + 1]
  /\ livePods' = IF evicted THEN livePods \ {curPod} ELSE livePods
  /\ failures' = IF evicted THEN failures ELSE failures \cup {curPod}
  /\ LocalsReset
  /\ UNCHANGED <<deployment, replicaSets, pods, unschedulable, workload, pc,
                 op, arg, result, cordon, toCordon, toDrain, curNode, todoPods,
                 cordonCalls, drainCalls, deleteCalls>>
  /\ UNCHANGED <<patchVars, callVars, coveredPods, raceVars,
                 handlesByName>>

\* node.Drain(filter) returns; after the last node the mitigation returns.
DrainNodeDone ==
  /\ pc = "drain"
  /\ curNode # 0
  /\ curPod = 0
  /\ todoPods = {}
  /\ curNode' = 0
  /\ pc' = DrainPc(toCordon, toDrain, 0)
  /\ result' = IF pc' = "returned" THEN Ok(DrainReturn(failures)) ELSE result
  /\ UNCHANGED <<clusterVars, workload, op, arg, cordon, toCordon, toDrain,
                 todoPods, cordonCalls, drainCalls, evictCalls, failures,
                 deleteCalls, localVars>>
  /\ UNCHANGED <<patchVars, callVars, coveredPods, raceVars,
                 handlesByName>>

\* One call of DrainWorkloadNodesFromOtherPods, remote call by remote call.
DrainSteps ==
  \/ \E c \in BOOLEAN : DrainStart(c)
  \/ ResolveReadDeployment
  \/ ResolveListReplicaSets
  \/ NodesReadReplicaSet
  \/ NodesListPods
  \/ NodesGetNode
  \/ \E n \in Nodes : CordonNode(n)
  \/ \E n \in Nodes : DrainNode(n)
  \/ \E p \in Pods : ExaminePod(p)
  \/ FilterReadReplicaSet
  \/ \E evicted \in BOOLEAN : EvictPod(evicted)
  \/ DrainNodeDone

Next ==
  \/ CallMatchLabels
  \/ CallPodMatchLabels
  \/ CallGetCoveredPods
  \/ \E p \in Pods : CallIsCoveringPod(p)
  \/ \E labels \in LabelMaps : CallAddTemplateLabels(labels)
  \/ CreateDenyAllNetworkPolicyForWorkload
  \/ \E cascade \in BOOLEAN : CallDelete(cascade)
  \/ OrphanPodsReplicaSet
  \/ OrphanPodsDeployment
  \/ OrphanPodsDeploymentReplicaSet
  \/ DrainSteps

Spec == Init /\ [][Next]_vars

\* ---------------------------------------------- concurrent other clients
\* While a drain runs, other clients of the API server change the cluster
\* between its calls: a pod's labels are changed; a replica set of the
\* deployment is created (a roll-out's new replica set, which selects the new
\* pods only) or removed without its pods.  Replacing the deployment's
\* replica set is two such changes, the removal and the creation, in either
\* order and with calls of the drain in between.
Draining == op = "Drain" /\ pc \in {"nodes", "cordon", "drain"}
MutationAllowed ==
  /\ Draining
  /\ Cardinality(relabelled) + Cardinality(replaced) < MaxMutations

RolloutSelector ==
  [match_labels |-> [app |-> "nginx", tier |-> "nginx"],
   match_expressions |-> None]

RelabelPod(p, labels) ==
  /\ MutationAllowed
  /\ p \in livePods \ relabelled
  /\ labels # pods[p].labels
  /\ pods' = [pods EXCEPT ![p].labels = labels]
  /\ relabelled' = relabelled \cup {p}
  /\ UNCHANGED <<deployment, replicaSets, livePods, unschedulable, workload,
                 pc, op, arg, result, drainVars, deleteCalls, patchVars,
                 callVars, coveredPods, handlesByName, replaced>>

CreateReplicaSet(r) ==
  /\ MutationAllowed
  /\ r \notin replaced
  /\ ~replicaSets[r].exists
  /\ \A q \in ReplicaSets : q < r => replicaSets[q].exists \/ q \in replaced
  /\ replicaSets' =
       [replicaSets EXCEPT
          ![r] = [exists |-> TRUE, namespace |-> WorkloadNamespace,
                  labels |-> AppNginxTier, selector |-> RolloutSelector]]
  /\ specs' = [specs EXCEPT
                 !.replicaSets[r] = WorkloadSpec(RolloutSelector.match_labels)]
  /\ replaced' = replaced \cup {r}
  /\ UNCHANGED <<deployment, pods, livePods, unschedulable, workload, pc, op,
                 arg, result, drainVars, deleteCalls, patchCalls,
                 networkPolicies, createCalls, callVars, coveredPods, handlesByName,
                 relabelled>>

RemoveReplicaSet(r) ==
  /\ MutationAllowed
  /\ r \notin replaced
  /\ replicaSets[r].exists
  /\ replicaSets' = [replicaSets EXCEPT ![r].exists = FALSE]
  /\ replaced' = replaced \cup {r}
  /\ UNCHANGED <<deployment, pods, livePods, unschedulable, workload, pc, op,
                 arg, result, drainVars, deleteCalls, patchVars, callVars,
                 coveredPods, handlesByName, relabelled>>

NextRace ==
  \/ DrainSteps
  \/ \E p \in Pods, labels \in {AppNginxTier, AppOther} : RelabelPod(p, labels)
  \/ \E r \in ReplicaSets : CreateReplicaSet(r)
  \/ \E r \in ReplicaSets : RemoveReplicaSet(r)

\* The drain fixtures with MaxRacePods pods, every pod in the workload's
\* namespace, the pods on the first nodes (the names of the nodes do not
\* matter).
NodesInUse == {pods[p].node : p \in livePods}
InitRace ==
  /\ IdleOperation
  /\ DrainFixture(1..MaxRacePods)
  /\ \A p \in livePods : pods[p].namespace = WorkloadNamespace
  /\ \A n \in Nodes : n + 1 \in NodesInUse => n \in NodesInUse
  /\ InitObjects

SpecRace == InitRace /\ [][NextRace]_vars

\* ---------------------------------------------------------------- claims
\* W is a subset of P as key-value pairs.
LabelSubset(W, P) == \A k \in DOMAIN W : k \in DOMAIN P /\ P[k] = W[k]

\* The pod-match-labels of the workload operated on (empty when unresolved).
ResolvedLabels ==
  IF IsOk(PodMatchLabels(workload)) THEN PodMatchLabels(workload).val ELSE <<>>

\* The pods the coverage listing returns, and the nodes hosting them.
CoveredNow ==
  IF IsOk(GetCoveredPods(workload)) THEN GetCoveredPods(workload).val ELSE {}
HostingNodes == {pods[p].node : p \in CoveredNow}

\* A pod that existed when the operation began: it exists, or was evicted.
InitiallyLive(p) == p \in livePods \/ evictCalls[p] > 0
EvictionIssued == \E p \in Pods : evictCalls[p] > 0
DrainReturned == op = "Drain" /\ pc = "returned"

\* C1: in a drain with cordon=true, once any eviction call has been issued
\* every node hosting a covered pod has been cordoned and no cordon call is
\* left to make; no step issues a cordon call after an eviction call.
C1_CordonBeforeEviction ==
  /\ []((op = "Drain" /\ cordon /\ EvictionIssued) =>
          /\ \A n \in HostingNodes : cordonCalls[n] >= 1 /\ n \in unschedulable
          /\ \A n \in Nodes : toCordon[n] = 0)
  /\ [][(\E n \in Nodes : cordonCalls'[n] > cordonCalls[n]) => ~EvictionIssued]_vars

\* C1 witness: an eviction was issued in a cordoning drain of two nodes.
C1_Witness ==
  /\ op = "Drain" /\ cordon /\ EvictionIssued
  /\ Cardinality(HostingNodes) >= 2
  /\ \A n \in HostingNodes : cordonCalls[n] = 1

\* C2: every step that issues an eviction call issues it for a pod for which
\* IsCoveringPod is false in the state the pod is examined in, bound to a node
\* that hosts a covered pod.
C2_OnlyUncoveredEvicted ==
  [][\A p \in Pods :
       evictCalls'[p] > evictCalls[p] =>
         /\ IsOk(IsCoveringPod(workload, p))
         /\ IsCoveringPod(workload, p).val = FALSE
         /\ pods[p].node \in HostingNodes]_vars

\* C2 witness: a pod was evicted from a node on which a pod covered by the
\* workload was examined and left running.
C2_Witness ==
  /\ DrainReturned
  /\ \E p \in Pods, q \in livePods :
       /\ evictCalls[p] = 1 /\ p \notin livePods
       /\ pods[q].node = pods[p].node
       /\ evictCalls[q] = 0
       /\ IsOk(IsCoveringPod(workload, q)) /\ IsCoveringPod(workload, q).val

\* C3 as stated: no node is cordoned or drained twice and no pod is attempted
\* twice; when the drain returns, every node hosting a covered pod was
\* cordoned once (cordon=true) and drained once, no other node was touched,
\* and exactly the pods on those nodes that the workload's labels do not cover
\* were attempted for eviction, once each.
VisitedOnce ==
  /\ \A n \in Nodes : cordonCalls[n] <= 1 /\ drainCalls[n] <= 1
  /\ \A p \in Pods : evictCalls[p] <= 1
  /\ DrainReturned =>
       /\ \A n \in Nodes :
            /\ cordonCalls[n] = IF cordon /\ n \in HostingNodes THEN 1 ELSE 0
            /\ drainCalls[n] = IF n \in HostingNodes THEN 1 ELSE 0
       /\ \A p \in Pods :
            evictCalls[p] =
              IF /\ InitiallyLive(p)
                 /\ pods[p].node \in HostingNodes
                 /\ ~LabelSubset(ResolvedLabels, pods[p].labels)
              THEN 1 ELSE 0
CoveredOn(n) == Cardinality({p \in coveredPods : pods[p].node = n})
VisitedPerHandle ==
  DrainReturned =>
    /\ \A n \in Nodes :
         /\ cordonCalls[n] = IF cordon THEN CoveredOn(n) ELSE 0
         /\ drainCalls[n] = CoveredOn(n)
    /\ \A p \in Pods :
         /\ evictCalls[p] <= drainCalls[pods[p].node]
         /\ evictCalls[p] >=
              IF /\ InitiallyLive(p)
                 /\ pods[p].node \in HostingNodes
                 /\ ~LabelSubset(ResolvedLabels, pods[p].labels)
              THEN 1 ELSE 0
C4_FailuresReported ==
  (op = "Drain" /\ failures # {}) =>
    /\ pc # "raised"
    /\ pc = "returned" =>
         /\ \A p \in Pods :
              (/\ InitiallyLive(p)
               /\ pods[p].node \in HostingNodes
               /\ ~LabelSubset(ResolvedLabels, pods[p].labels))
              => evictCalls[p] = 1
         /\ result.val = failures

\* The replica sets the deployment's selector matched when the operation
\* began: those it matches now, and those this operation has deleted.
ReplicaSetsAtStart ==
  {r \in ReplicaSets :
     /\ replicaSets[r].namespace = WorkloadNamespace
     /\ LabelSubset(deployment.selector.match_labels, replicaSets[r].labels)
     /\ \/ replicaSets[r].exists
        \/ \E i \in 1..Len(deleteCalls) :
             deleteCalls[i].kind = "ReplicaSet" /\ deleteCalls[i].name = r}
OrphanPodsEnded == op = "OrphanPods" /\ pc \in {"returned", "raised"}

\* C5: OrphanPods on a deployment whose equality selector matches exactly one
\* replica set ends without error after exactly two orphan deletes, the
\* deployment's and then that replica set's; OrphanPods on a replica set
\* issues exactly one orphan delete.
C5_OrphanPodsDeleteCalls ==
  /\ (/\ OrphanPodsEnded
      /\ calls = 1
      /\ workload.kind = "Deployment"
      /\ ~deployment.selector.match_expressions.present
      /\ Cardinality(ReplicaSetsAtStart) = 1)
     => /\ pc = "returned"
        /\ deleteCalls =
             <<DeleteCall(workload, FALSE),
               DeleteCall(K8sReplicaSet(CHOOSE r \in ReplicaSetsAtStart : TRUE,
                                        WorkloadNamespace), FALSE)>>
  /\ (OrphanPodsEnded /\ calls = 1 /\ workload.kind = "ReplicaSet")
     => deleteCalls = <<DeleteCall(workload, FALSE)>>

\* C6: IsCoveringPod returns true exactly when every pair of the workload's
\* pod-match-labels is in the pod's labels with an equal value (so always for
\* empty match labels).
C6_IsCoveringPodIffSubset ==
  (op = "IsCoveringPod" /\ pc = "returned") =>
    result.val = LabelSubset(ResolvedLabels, pods[arg].labels)

\* C6 witness: empty match labels cover a pod that carries labels, and
\* IsCoveringPod returned true.
C6_Witness ==
  /\ op = "IsCoveringPod" /\ pc = "returned"
  /\ DOMAIN ResolvedLabels = {}
  /\ DOMAIN pods[arg].labels # {}
  /\ result.val = TRUE

\* C7: IsCoveringPod returns false for a pod in another namespace than the
\* workload's, also when the pod's labels contain every pod-match-label (the
\* case of testPodIsCoveredByWorkloadDifferentNamespace: non-empty match
\* labels, all of them among the pod's labels).
C7_OtherNamespaceNotCovered ==
  (/\ op = "IsCoveringPod" /\ pc = "returned"
   /\ pods[arg].namespace # workload.namespace
   /\ DOMAIN ResolvedLabels # {}
   /\ LabelSubset(ResolvedLabels, pods[arg].labels))
  => result.val = FALSE

\* C8: GetCoveredPods returns exactly the existing pods of the workload's
\* namespace whose labels contain every pod-match-label.
C8_GetCoveredPodsExact ==
  (op = "GetCoveredPods" /\ pc = "returned") =>
    result.val =
      {p \in livePods : /\ pods[p].namespace = workload.namespace
                        /\ LabelSubset(ResolvedLabels, pods[p].labels)}

\* C8 witness: GetCoveredPods returned a pod and left out a pod of another
\* namespace with matching labels and a pod of the namespace with other labels.
C8_Witness ==
  /\ op = "GetCoveredPods" /\ pc = "returned"
  /\ result.val # {}
  /\ \E p \in livePods \ result.val :
       /\ pods[p].namespace # workload.namespace
       /\ LabelSubset(ResolvedLabels, pods[p].labels)
  /\ \E q \in livePods \ result.val :
       /\ pods[q].namespace = workload.namespace
       /\ ~LabelSubset(ResolvedLabels, pods[q].labels)

\* The replica sets of the deployment's namespace whose labels contain the
\* deployment's match labels.
MatchingReplicaSets ==
  {r \in ReplicaSets :
     /\ replicaSets[r].exists
     /\ replicaSets[r].namespace = workload.namespace
     /\ LabelSubset(deployment.selector.match_labels, replicaSets[r].labels)}

\* C9: a deployment's pod-match-label resolution returns only when exactly one
\* replica set matches, and then returns that replica set's match labels; with
\* none or several matching it raises.
C9_DeploymentResolution ==
  (op = "PodMatchLabels" /\ workload.kind = "Deployment") =>
    /\ pc = "returned" =>
         /\ Cardinality(MatchingReplicaSets) = 1
         /\ \A r \in MatchingReplicaSets :
              result.val = replicaSets[r].selector.match_labels
    /\ Cardinality(MatchingReplicaSets) # 1 => pc = "raised"

\* C9 witness: the resolution returned the replica set's match labels, which
\* differ from the deployment's.
C9_Witness ==
  /\ op = "PodMatchLabels" /\ workload.kind = "Deployment" /\ pc = "returned"
  /\ result.val # deployment.selector.match_labels

\* C10: MatchLabels on an existing workload raises when its selector has an
\* expression rule and returns the matchLabels mapping when it has none.
C10_MatchLabelsEqualityOnly ==
  (op = "MatchLabels" /\ IsOk(Read(workload))) =>
    LET sel == Read(workload).val.selector IN
    /\ Len(sel.match_expressions.items) > 0 =>
         pc = "raised" /\ result.err = "NotImplementedError"
    /\ Len(sel.match_expressions.items) = 0 =>
         pc = "returned" /\ result.val = sel.match_labels

\* C10 witness: MatchLabels raised for a selector with both equality rules and
\* an expression rule.
C10_Witness ==
  /\ op = "MatchLabels" /\ pc = "raised" /\ IsOk(Read(workload))
  /\ DOMAIN Read(workload).val.selector.match_labels # {}
  /\ Len(Read(workload).val.selector.match_expressions.items) > 0

\* C11: a successful AddTemplateLabels(labels) on a Deployment or ReplicaSet
\* issued exactly one patch, whose body names the template labels and nothing
\* else; afterwards the template labels are the old mapping overridden by the
\* given one, and the selector, the replicas, the containers, every other
\* object and every pod (its labels, its existence) are as they were.
TemplateLabels(w) == StoredSpec(w).template.metadata.labels
C11_AddTemplateLabelsFrame ==
  [][(op' = "AddTemplateLabels" /\ pc' = "returned") =>
       LET old == TemplateLabels(workload)
           new == [k \in DOMAIN old \cup DOMAIN arg' |->
                     IF k \in DOMAIN arg' THEN arg'[k] ELSE old[k]]
       IN /\ patchCalls' =
               <<[kind |-> workload.kind, name |-> workload.name,
                  namespace |-> workload.namespace,
                  body |-> [spec |-> [template |->
                                        [metadata |-> [labels |-> arg']]]]]>>
          /\ specs' =
               IF workload.kind = "Deployment"
               THEN [specs EXCEPT !.deployment.template.metadata.labels = new]
               ELSE [specs EXCEPT
                       !.replicaSets[workload.name].template.metadata.labels =
                         new]
          /\ deployment' = deployment
          /\ replicaSets' = replicaSets
          /\ pods' = pods
          /\ livePods' = livePods]_vars

\* C11 witness: the deployment's template carried app=nginx, tier=other and
\* was patched with tier=nginx: app is kept, tier is overwritten.
C11_Witness ==
  /\ op = "AddTemplateLabels"
  /\ pc = "returned"
  /\ workload.kind = "Deployment"
  /\ arg = [tier |-> "nginx"]
  /\ Len(patchCalls) = 1
  /\ TemplateLabels(workload) = [app |-> "nginx", tier |-> "nginx"]
  /\ StoredSpec(workload).replicas = 1

\* C12: when a call of CreateDenyAllNetworkPolicyForWorkload has ended, it has
\* requested the creation of one network policy, in the workload's namespace;
\* if that policy exists the workload was then patched once, with exactly the
\* policy's selecting labels as template labels, and if its creation failed
\* no patch was issued.
DenyAllCalled == op = "CreateDenyAllNetworkPolicyForWorkload"
C12_PolicyBeforePatch ==
  (DenyAllCalled /\ pc \in {"returned", "raised"}) =>
    /\ Len(createCalls) = 1
    /\ createCalls[1].namespace = workload.namespace
    /\ createCalls[1] \in networkPolicies =>
         patchCalls =
           <<[kind |-> workload.kind, name |-> workload.name,
              namespace |-> workload.namespace,
              body |-> [spec |-> [template |->
                         [metadata |-> [labels |-> createCalls[1].labels]]]]]>>
    /\ createCalls[1] \notin networkPolicies => patchCalls = <<>>

\* C13: a successful Delete issued exactly one delete call, for the workload,
\* and the workload object is gone.  With cascade=false (argument 0) the call
\* carries the Orphan propagation policy and every pod the workload managed,
\* like every other pod and replica set, still exists; with cascade=true
\* (argument 1) the call carries no Orphan policy and no pod the workload
\* managed exists any more.
ManagedByWorkload ==
  IF workload.kind = "Deployment"
  THEN UNION {ManagedPods(r) : r \in ManagedReplicaSets}
  ELSE ManagedPods(workload.name)
C13_DeleteCascade ==
  [][(op' = "Delete" /\ pc' = "returned") =>
       /\ Len(deleteCalls') = 1
       /\ deleteCalls'[1].kind = workload.kind
       /\ deleteCalls'[1].name = workload.name
       /\ IsOk(Read(workload))
       /\ ~IsOk(Read(workload))'
       /\ arg' = 0 =>
            /\ deleteCalls'[1].propagationPolicy = "Orphan"
            /\ livePods' = livePods
            /\ ManagedByWorkload \subseteq livePods'
            /\ workload.kind = "Deployment" => replicaSets' = replicaSets
       /\ arg' = 1 =>
            /\ deleteCalls'[1].propagationPolicy # "Orphan"
            /\ livePods' = livePods \ ManagedByWorkload]_vars

\* C13 witness: a cascading delete of the deployment removed a pod its replica
\* set managed and left another pod of the cluster in place.
C13_Witness ==
  /\ op = "Delete"
  /\ pc = "returned"
  /\ arg = 1
  /\ workload.kind = "Deployment"
  /\ deleteCalls[1].propagationPolicy = "default"
  /\ \E p \in Pods \ livePods : pods[p].labels = AppNginxTier
  /\ livePods # {}

\* C13 witness of the other case: an orphaning delete of the replica set left
\* the pods it managed.
C13_WitnessOrphan ==
  /\ op = "Delete"
  /\ pc = "returned"
  /\ arg = 0
  /\ workload.kind = "ReplicaSet"
  /\ deleteCalls[1].propagationPolicy = "Orphan"
  /\ \E p \in livePods :
       /\ pods[p].namespace = workload.namespace
       /\ Selects(replicaSets[workload.name].selector, pods[p].labels)

\* C14: the first OrphanPods call on a workload that existed (a replica set,
\* or a deployment whose equality selector matches exactly one replica set)
\* has returned without error; every later call on that workload has raised
\* NotFound, issued its one failing delete call and no other, and left every
\* object of the cluster in place.
OrphanPodsWorkloadExisted ==
  /\ atCall[1].exists
  /\ workload.kind = "Deployment" =>
       /\ ~deployment.selector.match_expressions.present
       /\ Cardinality(ReplicaSetsAtStart) = 1
C14_OrphanPodsTwice ==
  (OrphanPodsEnded /\ OrphanPodsWorkloadExisted) =>
    /\ calls = 1 => pc = "returned"
    /\ calls > 1 =>
         /\ pc = "raised"
         /\ result = Err("NotFound")
         /\ ObjectsNow = atCall[calls].objects
         /\ Len(deleteCalls) =
              (IF workload.kind = "Deployment" THEN 2 ELSE 1) + (calls - 1)

\* The workload's pod-match-labels cannot be resolved, read off the cluster:
\* the workload is missing or its selector has expression rules, or it is a
\* deployment and the replica sets its match labels select are not exactly
\* one without expression rules.
HasExpressions(selector) == selector.match_expressions.present
Unresolvable ==
  IF workload.kind = "Deployment"
  THEN \/ ~deployment.exists
       \/ HasExpressions(deployment.selector)
       \/ Cardinality(MatchingReplicaSets) # 1
       \/ \E r \in MatchingReplicaSets : HasExpressions(replicaSets[r].selector)
  ELSE \/ ~replicaSets[workload.name].exists
       \/ replicaSets[workload.name].namespace # workload.namespace
       \/ HasExpressions(replicaSets[workload.name].selector)

\* C15: when the workload's pod-match-labels do not resolve (expression
\* rules, a deployment matching zero or several replica sets, a missing
\* object), a drain is still resolving them or has raised the error of the
\* resolution, it never lists the pods, and it has changed nothing: no node
\* cordoned or drained, no eviction issued, every pod still there.
C15_ResolutionFailureNoEffect ==
  (op = "Drain" /\ Unresolvable) =>
    /\ pc \in {"nodes", "raised"}
    /\ pc = "nodes" =>
         step \in {"read_deployment", "list_replica_sets", "read_replica_set"}
    /\ pc = "raised" =>
         /\ result = PodMatchLabels(workload)
         /\ result.err \in {"NotImplementedError", "NotFound"}
    /\ cordonCalls = NoNodes
    /\ drainCalls = NoNodes
    /\ unschedulable = {}
    /\ \A p \in Pods : evictCalls[p] = 0
    /\ failures = {}
    /\ \A p \in Pods : pods[p] # AbsentPod => p \in livePods

\* C15 witness: a drain of a deployment whose selector matches two replica
\* sets raised, with pods present that a drain would have evicted.
C15_Witness ==
  /\ op = "Drain"
  /\ pc = "raised"
  /\ workload.kind = "Deployment"
  /\ Cardinality(MatchingReplicaSets) = 2
  /\ result = Err("NotImplementedError")
  /\ \E p \in livePods : pods[p].labels = AppOther

\* C15 witness of the expression case: the replica set's selector carries an
\* expression rule.
C15_WitnessExpressions ==
  /\ op = "Drain"
  /\ pc = "raised"
  /\ workload.kind = "ReplicaSet"
  /\ IsOk(Read(workload))
  /\ Read(workload).val.selector.match_expressions.present
  /\ result = Err("NotImplementedError")

\* C16 as stated: whatever other clients do during a drain, no pod of the
\* GetCoveredPods result that chose the nodes has been evicted, and the drain
\* has not raised after cordoning a node.
C16_CoveredPodsNeverEvicted ==
  op = "Drain" =>
    /\ \A p \in coveredPods : evictCalls[p] = 0
    /\ pc = "raised" => cordonCalls = NoNodes

\* C16, as the code has it: a pod of the GetCoveredPods result that chose the
\* nodes has been evicted only if, during the run, its labels were changed or
\* a replica set was created or removed; and the drain has raised after
\* cordoning a node only if a replica set was created or removed during the
\* run.  Changes to the labels of other pods do not matter.
C16_CoveredPodsKeptUnlessMutated ==
  op = "Drain" =>
    /\ \A p \in coveredPods :
         evictCalls[p] > 0 => (p \in relabelled \/ replaced # {})
    /\ (pc = "raised" /\ cordonCalls # NoNodes) => replaced # {}

\* C16 witness: while a cordoning drain ran, the deployment's replica set was
\* replaced (the old one removed, a new one with another selector created);
\* the drain returned, having evicted a pod of the GetCoveredPods result whose
\* labels nobody changed.
C16_Witness ==
  /\ op = "Drain"
  /\ pc = "returned"
  /\ cordonCalls # NoNodes
  /\ Cardinality(replaced) = 2
  /\ \E r \in replaced : replicaSets[r].exists
  /\ \E r \in replaced : ~replicaSets[r].exists
  /\ relabelled = {}
  /\ \E p \in coveredPods : evictCalls[p] > 0 /\ p \notin livePods

\* C17: in a cluster nobody else changes, IsCoveringPod(p) returns true
\* exactly for the pods GetCoveredPods returns, whatever the pod's namespace;
\* and after a drain without failed eviction the pods still on the drained
\* nodes are exactly the pods GetCoveredPods returned.
DrainedNodes == {n \in Nodes : drainCalls[n] > 0}
C17_CoverageQueriesAgree ==
  /\ (op = "IsCoveringPod" /\ pc = "returned") =>
       (result.val <=> arg \in CoveredNow)
  /\ (DrainReturned /\ failures = {}) =>
       {p \in livePods : pods[p].node \in DrainedNodes} = coveredPods
====
